---- MODULE Spec2Model ----
(***************************************************************************)
(* The SQL sandbox execution engine of services/sql-execution.js:          *)
(* the lazily created connection pool, executeQuery (adhoc mode),          *)
(* executeMultipleStatements (setup mode), validateQuery, resetEnvironment *)
(* and its session namespacing.                                            *)
(*                                                                         *)
(* Text is a sequence of one-character strings, so that the regular        *)
(* expressions of the source are computed character by character.          *)
(***************************************************************************)
EXTENDS Integers, Sequences, FiniteSets, TLC

\* ------------------------------------------------------------------ text

LowerLetters == <<"a", "b", "c", "d", "e", "f", "g", "h", "i", "j", "k", "l", "m", "n", "o", "p", "q", "r", "s", "t", "u", "v", "w", "x", "y", "z">>
UpperLetters == <<"A", "B", "C", "D", "E", "F", "G", "H", "I", "J", "K", "L", "M", "N", "O", "P", "Q", "R", "S", "T", "U", "V", "W", "X", "Y", "Z">>
DigitChars == {"0", "1", "2", "3", "4", "5", "6", "7", "8", "9"}

Range(f) == {f[i] : i \in DOMAIN f}

Min(a, b) == IF a <= b THEN a ELSE b

\* String.prototype.toUpperCase / toLowerCase, one character at a time.
toUpperCase(c) ==
  IF \E i \in 1..26 : LowerLetters[i] = c
  THEN UpperLetters[CHOOSE i \in 1..26 : LowerLetters[i] = c]
  ELSE c

toLowerCase(c) ==
  IF \E i \in 1..26 : UpperLetters[i] = c
  THEN LowerLetters[CHOOSE i \in 1..26 : UpperLetters[i] = c]
  ELSE c

lowerText(s) == [i \in 1..Len(s) |-> toLowerCase(s[i])]

\* The regular expression classes \w ([A-Za-z0-9_]) and \s.
IsWordChar(c) == c \in Range(LowerLetters) \cup Range(UpperLetters) \cup DigitChars \cup {"_"}
IsSpace(c) == c \in {" ", "\n", "\t"}

\* String.prototype.trim() leaves nothing: the `!stmt.trim()` tests.
IsBlank(s) == \A i \in 1..Len(s) : IsSpace(s[i])

\* String.prototype.startsWith
startsWith(s, p) == Len(p) <= Len(s) /\ SubSeq(s, 1, Len(p)) = p

\* A keyword of a /.../gi expression at position i of s (case-insensitive).
MatchLit(s, i, lit) ==
  /\ i + Len(lit) - 1 <= Len(s)
  /\ \A j \in 1..Len(lit) : toUpperCase(s[i + j - 1]) = lit[j]

\* The position after the longest run of \s (of \w) that starts at i.
RECURSIVE SkipSpaces(_, _)
SkipSpaces(s, i) == IF i <= Len(s) /\ IsSpace(s[i]) THEN SkipSpaces(s, i + 1) ELSE i

RECURSIVE WordEnd(_, _)
WordEnd(s, i) == IF i <= Len(s) /\ IsWordChar(s[i]) THEN WordEnd(s, i + 1) ELSE i

kwCREATE == <<"C", "R", "E", "A", "T", "E">>
kwOR == <<"O", "R">>
kwREPLACE == <<"R", "E", "P", "L", "A", "C", "E">>
kwTABLE == <<"T", "A", "B", "L", "E">>
kwTYPE == <<"T", "Y", "P", "E">>
kwVIEW == <<"V", "I", "E", "W">>
kwIF == <<"I", "F">>
kwNOT == <<"N", "O", "T">>
kwEXISTS == <<"E", "X", "I", "S", "T", "S">>
kwFROM == <<"F", "R", "O", "M">>
kwJOIN == <<"J", "O", "I", "N">>
kwINTO == <<"I", "N", "T", "O">>
kwOF == <<"O", "F">>
kwREF == <<"R", "E", "F">>
kwINSERT == <<"I", "N", "S", "E", "R", "T">>

\* ------------------------------------------------- session namespacing

\* The length the sanitized session identifier is cut to.
TokenMaxLen == 20

\* The replacement alone, without the cut.
safeSessionIdUncut(sessionId) ==
  [i \in 1..Len(sessionId) |->
     IF IsWordChar(sessionId[i]) THEN sessionId[i] ELSE "_"]

\* sessionId.replace(/[^a-zA-Z0-9_]/g, '_').substring(0, 20)
safeSessionIdOf(sessionId) ==
  SubSeq([i \in 1..Len(sessionId) |->
            IF IsWordChar(sessionId[i]) THEN sessionId[i] ELSE "_"],
         1, Min(Len(sessionId), TokenMaxLen))

\* The names the reference rule never prefixes.
SystemNames ==
  { <<"d", "u", "a", "l">>,
    <<"u", "s", "e", "r", "_", "t", "a", "b", "l", "e", "s">>,
    <<"a", "l", "l", "_", "t", "a", "b", "l", "e", "s">>,
    <<"u", "s", "e", "r", "_", "t", "y", "p", "e", "s">>,
    <<"a", "l", "l", "_", "t", "y", "p", "e", "s">> }

NoMatch == [ok |-> FALSE, end |-> 0, g1 |-> <<>>, g2 |-> <<>>, g3 |-> <<>>]

\* The position after IF\s+NOT\s+EXISTS\s+ read from p, or 0.
IfNotExistsEnd(s, p, a, b) ==
  IF /\ MatchLit(s, p, kwIF) /\ a > p + 2
     /\ MatchLit(s, a, kwNOT) /\ b > a + 3
     /\ MatchLit(s, b, kwEXISTS) /\ SkipSpaces(s, b + 6) > b + 6
  THEN SkipSpaces(s, b + 6) ELSE 0

\* The negative lookahead (?!IF\s+NOT\s+EXISTS\s+) at position p.
IfNotExistsAt(s, p) ==
  IfNotExistsEnd(s, p, SkipSpaces(s, p + 2), SkipSpaces(s, SkipSpaces(s, p + 2) + 3)) > 0

\* The position after the optional group (OR\s+REPLACE\s+)? read from a
\* (a itself when the group matches nothing).
OrReplaceRest(s, a, b, c) ==
  IF MatchLit(s, a, kwOR) /\ b > a + 2 /\ MatchLit(s, b, kwREPLACE) /\ c > b + 7
  THEN c ELSE a

OrReplaceEnd(s, a) ==
  OrReplaceRest(s, a, SkipSpaces(s, a + 2), SkipSpaces(s, SkipSpaces(s, a + 2) + 7))

\* The length of the alternative of (TABLE|TYPE|VIEW) that matches at k, or 0.
ObjectKeywordLen(s, k) ==
  IF MatchLit(s, k, kwTABLE) THEN 5
  ELSE IF MatchLit(s, k, kwTYPE) THEN 4
  ELSE IF MatchLit(s, k, kwVIEW) THEN 4
  ELSE 0

\* The end of the CREATE expression: a is where group 1 starts, k where
\* group 2 starts, p where the name starts and e where it ends.
CreateGroups(s, a, k, kwlen, p, e) ==
  IF kwlen = 0 \/ p = k + kwlen \/ IfNotExistsAt(s, p) \/ e = p
  THEN NoMatch
  ELSE [ok |-> TRUE, end |-> e, g1 |-> SubSeq(s, a, k - 1),
        g2 |-> SubSeq(s, k, k + kwlen - 1), g3 |-> SubSeq(s, p, e - 1)]

CreateName(s, a, k, kwlen, p) == CreateGroups(s, a, k, kwlen, p, WordEnd(s, p))

CreateKeyword(s, a, k, kwlen) == CreateName(s, a, k, kwlen, SkipSpaces(s, k + kwlen))

CreateObject(s, a, k) == CreateKeyword(s, a, k, ObjectKeywordLen(s, k))

CreateRest(s, i, a) == IF a = i + 6 THEN NoMatch ELSE CreateObject(s, a, OrReplaceEnd(s, a))

\* One match, at position i, of
\*   /CREATE\s+(OR\s+REPLACE\s+)?(TABLE|TYPE|VIEW)\s+(?!IF\s+NOT\s+EXISTS\s+)(\w+)/gi
\* with its three groups and the position after it.
CreateMatch(s, i) ==
  IF MatchLit(s, i, kwCREATE) THEN CreateRest(s, i, SkipSpaces(s, i + 6)) ELSE NoMatch

\* The replacement string `CREATE $1$2 ${safeSessionId}_$3` of one match.
createReplacement(m, safeSessionId) ==
  kwCREATE \o <<" ">> \o m.g1 \o m.g2 \o <<" ">> \o safeSessionId \o <<"_">> \o m.g3

\* stmt.replace(<the CREATE expression>, `CREATE $1$2 ${safeSessionId}_$3`)
\* (the scan goes from one match to the next: the text between two
\* matches is copied, and the scan resumes after the match)
firstOf(positions) ==
  IF positions = {} THEN 0 ELSE CHOOSE x \in positions : \A y \in positions : x <= y

firstCreate(s, i) == firstOf({j \in i..Len(s) : CreateMatch(s, j).ok})

RECURSIVE replaceCreateFrom(_, _, _)
replaceCreateAt(s, safeSessionId, i, j) ==
  IF j = 0
  THEN SubSeq(s, i, Len(s))
  ELSE SubSeq(s, i, j - 1) \o createReplacement(CreateMatch(s, j), safeSessionId)
         \o replaceCreateFrom(s, safeSessionId, CreateMatch(s, j).end)

replaceCreateFrom(s, safeSessionId, i) ==
  replaceCreateAt(s, safeSessionId, i, firstCreate(s, i))

replaceCreate(s, safeSessionId) == replaceCreateFrom(s, safeSessionId, 1)

\* The position after the alternative of (FROM|JOIN|INTO|TABLE\s+OF|REF)
\* that matches at i, or 0; tof is the position after TABLE\s+.
RefKeywordEnd(s, i, tof) ==
  IF MatchLit(s, i, kwFROM) \/ MatchLit(s, i, kwJOIN) \/ MatchLit(s, i, kwINTO)
  THEN i + 4
  ELSE IF MatchLit(s, i, kwTABLE) /\ tof > i + 5 /\ MatchLit(s, tof, kwOF)
  THEN tof + 2
  ELSE IF MatchLit(s, i, kwREF) THEN i + 3
  ELSE 0

RefGroups(s, i, kend, p, e) ==
  IF (i > 1 /\ IsWordChar(s[i - 1])) \/ kend = 0 \/ p = kend \/ e = p
  THEN NoMatch
  ELSE [ok |-> TRUE, end |-> e, g1 |-> SubSeq(s, i, kend - 1),
        g2 |-> <<>>, g3 |-> SubSeq(s, p, e - 1)]

RefName(s, i, kend, p) == RefGroups(s, i, kend, p, WordEnd(s, p))

RefRest(s, i, kend) == RefName(s, i, kend, SkipSpaces(s, kend))

\* One match, at position i, of /\b(FROM|JOIN|INTO|TABLE\s+OF|REF)\s+(\w+)/gi:
\* g1 is the keyword, g3 the name.
RefMatch(s, i) == RefRest(s, i, RefKeywordEnd(s, i, SkipSpaces(s, i + 5)))

\* An already prefixed name, which the reference rule leaves alone.
IsPrefixed(name, safeSessionId) == startsWith(name, safeSessionId \o <<"_">>)

\* The replacement callback of the reference rule.
refReplacement(s, i, m, safeSessionId) ==
  IF IsPrefixed(m.g3, safeSessionId) \/ lowerText(m.g3) \in SystemNames
  THEN SubSeq(s, i, m.end - 1)
  ELSE m.g1 \o <<" ">> \o safeSessionId \o <<"_">> \o m.g3

firstRef(s, i) == firstOf({j \in i..Len(s) : RefMatch(s, j).ok})

RECURSIVE replaceRefsFrom(_, _, _)
replaceRefsAt(s, safeSessionId, i, j) ==
  IF j = 0
  THEN SubSeq(s, i, Len(s))
  ELSE SubSeq(s, i, j - 1) \o refReplacement(s, j, RefMatch(s, j), safeSessionId)
         \o replaceRefsFrom(s, safeSessionId, RefMatch(s, j).end)

replaceRefsFrom(s, safeSessionId, i) ==
  replaceRefsAt(s, safeSessionId, i, firstRef(s, i))

replaceRefs(s, safeSessionId) == replaceRefsFrom(s, safeSessionId, 1)

\* The two rewriting rules of resetEnvironment, applied to one statement.
namespaceStatement(s, safeSessionId) ==
  replaceRefs(replaceCreate(s, safeSessionId), safeSessionId)

\* ---------------------------------------------------- statement splitting

IsLetter(c) == c \in Range(LowerLetters) \cup Range(UpperLetters)

\* String.prototype.trim
RECURSIVE trimEnd(_)
trimEnd(s) == IF s # <<>> /\ IsSpace(s[Len(s)]) THEN trimEnd(SubSeq(s, 1, Len(s) - 1)) ELSE s

trim(s) == LET b == SkipSpaces(s, 1) IN trimEnd(SubSeq(s, b, Len(s)))

upperText(s) == [i \in 1..Len(s) |-> toUpperCase(s[i])]

endsWith(s, p) == Len(p) <= Len(s) /\ SubSeq(s, Len(s) - Len(p) + 1, Len(s)) = p

\* String.prototype.split on one separator character
\* The pieces of s between the cuts: `cuts` holds 0, Len(s) + 1 and the
\* positions of the separators.
cutAt(cuts, k) == CHOOSE p \in cuts : Cardinality({q \in cuts : q < p}) = k - 1

splitAtCuts(s, cuts) ==
  [k \in 1..(Cardinality(cuts) - 1) |->
     SubSeq(s, cutAt(cuts, k) + 1, cutAt(cuts, k + 1) - 1)]

splitOn(s, sep) == splitAtCuts(s, {0, Len(s) + 1} \cup {i \in 1..Len(s) : s[i] = sep})

RECURSIVE joinLines(_)
joinLines(ls) ==
  IF ls = <<>> THEN <<>>
  ELSE IF Len(ls) = 1 THEN ls[1]
  ELSE ls[1] \o <<"\n">> \o joinLines(Tail(ls))

\* script.replace(/^([A-Za-z].+)/gm, ...) on one line: a line that starts
\* with a letter and has a second character is the match, and as it starts
\* with a letter none of the three startsWith tests of the callback holds.
markLine(line) ==
  IF Len(line) >= 2 /\ IsLetter(line[1])
  THEN <<"-", "-", " ">> \o line
  ELSE line

cleanScriptOf(script) ==
  LET ls == splitOn(script, "\n") IN
  joinLines([i \in 1..Len(ls) |-> markLine(ls[i])])

kwBEGIN == <<"B", "E", "G", "I", "N">>
kwDECLARE == <<"D", "E", "C", "L", "A", "R", "E">>
kwPROCEDURE == <<"P", "R", "O", "C", "E", "D", "U", "R", "E">>
kwFUNCTION == <<"F", "U", "N", "C", "T", "I", "O", "N">>
kwTRIGGER == <<"T", "R", "I", "G", "G", "E", "R">>
kwPACKAGE == <<"P", "A", "C", "K", "A", "G", "E">>
kwENDSEMI == <<"E", "N", "D", ";">>

\* /^\s*CREATE\s+(OR\s+REPLACE\s+)?(PROCEDURE|FUNCTION|TRIGGER|PACKAGE|TYPE)/i
\* read from i, the first position that is not white space.
BlockKeywordAt(line, k) ==
  \E kw \in {kwPROCEDURE, kwFUNCTION, kwTRIGGER, kwPACKAGE, kwTYPE} : MatchLit(line, k, kw)

BlockHeaderRest(line, i, a) == a > i + 6 /\ BlockKeywordAt(line, OrReplaceEnd(line, a))

BlockHeaderAt(line, i) ==
  MatchLit(line, i, kwCREATE) /\ BlockHeaderRest(line, i, SkipSpaces(line, i + 6))

IsBlockHeader(line) == BlockHeaderAt(line, SkipSpaces(line, 1))

\* The test that opens a procedural block, on line.toUpperCase().
OpensBlockUpper(upper) ==
  \/ startsWith(upper, kwBEGIN)
  \/ startsWith(upper, kwDECLARE)
  \/ IsBlockHeader(upper)

OpensBlock(line) == OpensBlockUpper(upperText(line))

\* The scanner state of splitOracleStatements.
Scanner(statements, currentStatement, inPLSQL, slashPending) ==
  [statements |-> statements, currentStatement |-> currentStatement,
   inPLSQL |-> inPLSQL, slashPending |-> slashPending]

\* statements.push(currentStatement.trim())
pushStatement(statements, trimmed) == Append(statements, trimmed)

\* For comparison, a scanner that closes the statement at every line that
\* ends in ";", inside a block as well.
splitTextAnywhere(st, line, inPL, cur) ==
  IF endsWith(line, <<";">>)
  THEN Scanner(pushStatement(st.statements, trim(cur)), <<>>, inPL, st.slashPending)
  ELSE Scanner(st.statements, cur, inPL, st.slashPending)

\* The end of one iteration for a line that is not "/": the line has been
\* added to the current statement (cur), inPL is inPLSQL after the block test.
splitText(st, line, inPL, cur) ==
  IF ~inPL /\ endsWith(line, <<";">>)
  THEN Scanner(pushStatement(st.statements, trim(cur)), <<>>, inPL, st.slashPending)
  ELSE IF inPL /\ endsWith(upperText(line), kwENDSEMI)
  THEN Scanner(st.statements, cur, inPL, TRUE)
  ELSE Scanner(st.statements, cur, inPL, st.slashPending)

\* The iteration for a "/" line: with the terminator pending, and without.
splitSlash(st, trimmed) ==
  IF st.slashPending
  THEN Scanner(pushStatement(st.statements, trimmed), <<>>, FALSE, FALSE)
  ELSE IF trimmed # <<>>
  THEN Scanner(pushStatement(st.statements, trimmed), <<>>, FALSE, st.slashPending)
  ELSE Scanner(st.statements, st.currentStatement, FALSE, st.slashPending)

\* One iteration of the line loop, on the trimmed line.
splitLine(st, line) ==
  IF line = <<>> THEN st
  ELSE IF line = <<"/">> THEN splitSlash(st, trim(st.currentStatement))
  ELSE splitText(st, line, st.inPLSQL \/ OpensBlock(line),
                 st.currentStatement \o line \o <<"\n">>)

splitStep(st, rawLine) == splitLine(st, trim(rawLine))

RECURSIVE splitLoop(_, _, _)
splitLoop(lines, i, st) ==
  IF i > Len(lines) THEN st ELSE splitLoop(lines, i + 1, splitStep(st, lines[i]))

\* The final filter: a statement is kept when one of its lines is neither
\* blank nor a "--" comment.
IsCommentLine(trimmed) == startsWith(trimmed, <<"-", "-">>)

HasNonCommentLine(stmt) ==
  \E l \in Range(splitOn(stmt, "\n")) : ~IsCommentLine(trim(l)) /\ ~IsBlank(l)

\* After the loop: the remaining statement is added, then the filter.
splitFinish(st, trimmed) ==
  SelectSeq(IF trimmed # <<>> THEN pushStatement(st.statements, trimmed)
            ELSE st.statements,
            HasNonCommentLine)

splitScanned(st) == splitFinish(st, trim(st.currentStatement))

splitOracleStatements(script) ==
  splitScanned(splitLoop(splitOn(cleanScriptOf(script), "\n"), 1,
                         Scanner(<<>>, <<>>, FALSE, FALSE)))

\* ------------------------------------------------------------ the backend

\* The position after the "--" comment that starts at b: after its line.
RECURSIVE LineEnd(_, _)
LineEnd(text, j) ==
  IF j > Len(text) THEN j ELSE IF text[j] = "\n" THEN j + 1 ELSE LineEnd(text, j + 1)

\* The position where the SQL text starts: after white space and leading
\* "--" comment lines.
RECURSIVE SkipComments(_, _)
SkipCommentAt(text, b) ==
  IF b + 1 <= Len(text) /\ text[b] = "-" /\ text[b + 1] = "-"
  THEN SkipComments(text, LineEnd(text, b))
  ELSE b

SkipComments(text, i) == SkipCommentAt(text, SkipSpaces(text, i))

\* INSERT\s+INTO\s+<name> read from b; i1 and i2 are the positions after
\* the white space that follows each keyword.
InsertTarget(text, b, i1, i2) ==
  IF /\ MatchLit(text, b, kwINSERT) /\ i1 > b + 6
     /\ MatchLit(text, i1, kwINTO) /\ i2 > i1 + 4 /\ WordEnd(text, i2) > i2
  THEN [kind |-> "insert", name |-> SubSeq(text, i2, WordEnd(text, i2) - 1)]
  ELSE [kind |-> "other", name |-> <<>>]

\* What the database makes of the text from b on; cm is the CREATE match at b.
ParseFrom(text, b, cm) ==
  IF \E j \in b..Len(text) : text[j] = ";"
  THEN [kind |-> "other", name |-> <<>>]
  ELSE IF cm.ok /\ cm.g1 = <<>> /\ MatchLit(cm.g2, 1, kwTABLE)
  THEN [kind |-> "create", name |-> cm.g3]
  ELSE InsertTarget(text, b, SkipSpaces(text, b + 6),
                    SkipSpaces(text, SkipSpaces(text, b + 6) + 4))

ParseAt(text, b) == ParseFrom(text, b, CreateMatch(text, b))

\* What the database does with one statement text: the forms the sandbox
\* scripts use (CREATE TABLE <name>, INSERT INTO <name>); any other text,
\* and a text that still carries its ";" terminator, is rejected.
ParseStatement(text) == ParseAt(text, SkipComments(text, 1))

TableExists(db, name) == \E e \in db : e.kind = "table" /\ e.name = name

Effect(kind, name, by) == [kind |-> kind, name |-> name, by |-> by]

\* A parsed statement st run on a connection whose open transaction holds
\* `pend`: DDL commits the open transaction and is itself committed at
\* once; DML joins the open transaction, which autoCommit commits after a
\* successful statement. `by` tags the effect with the call and statement.
dbRun(db, pend, st, autoCommit, by) ==
  IF st.kind = "create"
  THEN IF TableExists(db, st.name)
       THEN [ok |-> FALSE, db |-> db \cup pend, pend |-> {}]
       ELSE [ok |-> TRUE, db |-> db \cup pend \cup {Effect("table", st.name, by)},
             pend |-> {}]
  ELSE IF st.kind = "insert" /\ TableExists(db, st.name)
  THEN IF autoCommit
       THEN [ok |-> TRUE, db |-> db \cup pend \cup {Effect("row", st.name, by)},
             pend |-> {}]
       ELSE [ok |-> TRUE, db |-> db, pend |-> pend \cup {Effect("row", st.name, by)}]
  ELSE [ok |-> FALSE, db |-> db, pend |-> pend]

\* connection.execute(text, binds, {autoCommit}) as the Oracle database runs
\* it. `fault` is a connection-level failure: the call throws, nothing
\* happens.
dbExecute(db, pend, text, autoCommit, fault, by) ==
  IF fault THEN [ok |-> FALSE, db |-> db, pend |-> pend]
  ELSE dbRun(db, pend, ParseStatement(text), autoCommit, by)

\* DBMS_SQL.PARSE of a parsed statement: the database runs a DDL statement
\* when it parses it; a DML statement is only checked.
dbParseRun(db, pend, st, r) ==
  IF st.kind = "create"
  THEN [threw |-> FALSE, valid |-> r.ok, db |-> r.db, pend |-> r.pend]
  ELSE [threw |-> FALSE, valid |-> r.ok, db |-> db, pend |-> pend]

dbParseOf(db, pend, st, by) == dbParseRun(db, pend, st, dbRun(db, pend, st, FALSE, by))

\* The anonymous block of validateQuery: DBMS_SQL.PARSE(:sql_text) inside
\* BEGIN ... EXCEPTION WHEN OTHERS. `fault`: execute itself throws, which
\* is also what happens when the database rejects the block as written
\* (the call of PARSE names no cursor) before it runs.
dbParse(db, pend, text, fault, by) ==
  IF fault THEN [threw |-> TRUE, valid |-> FALSE, db |-> db, pend |-> pend]
  ELSE dbParseOf(db, pend, ParseStatement(text), by)

\* ----------------------------------------------------- the program state

VARIABLES
  pool,         \* the module-level `pool`: 0 is null, else the pool's number
  createCalls,  \* how many times oracledb.createPool was called
  poolsMade,    \* how many pools createPool has made
  inUse,        \* the connections handed out and not released
  committed,    \* what the database holds durably
  pendingTx,    \* per connection: the effects of its open transaction
  call,         \* per call: where it stands and what it holds
  ns,           \* two sessions that namespace the same statement
  su            \* one setup script on its way through resetEnvironment

vars == <<pool, createCalls, poolsMade, inUse, committed, pendingTx, call, ns, su>>

\* The calls in flight at once.
Calls == {1, 2}

\* config.ORACLE_POOL_MAX
PoolMax == 5

\* A connection is <<pool number, slot>>; NoConn is `connection` undefined.
Conns == (1..Cardinality(Calls)) \X (1..PoolMax)
NoConn == <<0, 0>>

\* The longest statement text a result entry carries uncut.
ResultTextMax == 100

\* ------------------------------------------------------------- the inputs

\* The most statements in one query, statement list or script list.
MaxStmts == 2

txtCreateT == <<"C", "R", "E", "A", "T", "E", " ", "T", "A", "B", "L", "E", " ", "t">>
txtInsertT == <<"I", "N", "S", "E", "R", "T", " ", "I", "N", "T", "O", " ", "t">>
txtBlank == <<" ">>
\* Setup scripts: an indented statement, and one written from column 0.
txtScriptCreate == <<" ">> \o txtCreateT
txtScriptInsert == <<" ">> \o txtInsertT
txtScriptCol0 == txtCreateT \o <<";">>
txtSession == <<"a", "1">>

\* The script of the end-to-end scenarios A and B, and the empty string as a
\* session identifier.
txtScenarioB ==
  <<"C", "R", "E", "A", "T", "E", " ", "T", "A", "B", "L", "E", " ", "t", " ", "(", "i", "d",
    " ", "I", "N", "T", ")", ";", " ", "I", "N", "S", "E", "R", "T", " ", "I", "N", "T", "O",
    " ", "t", " ", "V", "A", "L", "U", "E", "S", " ", "(", "1", ")", ";", " ", "I", "N", "S",
    "E", "R", "T", " ", "I", "N", "T", "O", " ", "b", "o", "g", "u", "s", " ", "V", "A", "L",
    "U", "E", "S", " ", "(", "1", ")", ";">>
txtEmptySession == <<>>

StmtPool == {txtCreateT, txtInsertT}
ScriptPool == {txtScriptCreate, txtScriptInsert}

SeqsUpTo(S, n) == UNION {[1..k -> S] : k \in 0..n}

RECURSIVE joinWith(_, _)
joinWith(ts, sep) ==
  IF ts = <<>> THEN <<>>
  ELSE IF Len(ts) = 1 THEN ts[1]
  ELSE ts[1] \o <<sep>> \o joinWith(Tail(ts), sep)

\* A query text: statements separated by ";".
\* Lists of up to MaxStmts statements; a list may start with a blank entry.
StmtLists ==
  SeqsUpTo(StmtPool, MaxStmts)
    \cup {<<txtBlank>> \o ts : ts \in SeqsUpTo(StmtPool, MaxStmts - 1)}

\* Lists of up to MaxStmts scripts, and the script that starts in column 0.
ScriptLists == SeqsUpTo(ScriptPool, MaxStmts) \cup {<<txtScriptCol0>>, <<txtScenarioB>>}

Queries == {joinWith(ts, ";") : ts \in StmtLists \ {<<>>}}

Ops == {"executeQuery", "executeMultipleStatements", "validateQuery", "resetEnvironment"}

\* `input` is the first argument: <<query>> (<<>> for a null query), the
\* statement list, or the setupScripts list. `sessionId` is <<>> for null.
\* Call 1 is given every input within the bounds.
InputsOf(op) ==
  CASE op = "executeQuery" -> {<<q>> : q \in Queries} \cup {<<>>}
    [] op = "executeMultipleStatements" -> StmtLists
    [] op = "validateQuery" -> {<<txtCreateT>>, <<txtInsertT>>}
    [] op = "resetEnvironment" -> ScriptLists

SessionsOf(op) ==
  CASE op = "executeQuery" -> {<<>>, <<txtSession>>}
    [] op = "resetEnvironment" -> {<<>>, <<txtSession>>, <<txtEmptySession>>}
    [] OTHER -> {<<>>}

\* The requests call 1 makes: every input with every session identifier,
\* except that executeQuery, which does not read its sessionId, is given one
\* with two queries only, and that the empty identifier comes with one script.
Requested(op, input, sessionId) ==
  CASE op = "executeQuery" /\ sessionId # <<>> ->
         input \in {<<txtInsertT>>, <<joinWith(<<txtCreateT, txtInsertT>>, ";")>>}
    [] op = "resetEnvironment" /\ sessionId = <<txtEmptySession>> ->
         input = <<txtScriptCreate>>
    [] OTHER -> TRUE

\* The other calls are concurrent callers of the three functions that
\* execute what they are given, with one request per function.
ConcurrentOps == {"executeQuery", "executeMultipleStatements", "validateQuery"}

ConcurrentInputsOf(op) ==
  CASE op = "executeQuery" -> {<<joinWith(<<txtCreateT, txtInsertT>>, ";")>>}
    [] op = "executeMultipleStatements" -> {<<txtCreateT, txtInsertT>>}
    [] op = "validateQuery" -> {<<txtCreateT>>}

ConcurrentSessionsOf(op) == IF op = "executeQuery" THEN {<<txtSession>>} ELSE {<<>>}

\* ---------------------------------------------------------------- results

NoRet == [kind |-> "none", success |-> FALSE, hasResults |-> FALSE,
          results |-> <<>>, error |-> ""]

IdleCall ==
  [pc |-> "idle", op |-> "none", input |-> <<>>, sessionId |-> <<>>,
   poolRef |-> 0, connection |-> NoConn, statements |-> <<>>, idx |-> 0,
   results |-> <<>>, successful |-> TRUE, ret |-> NoRet, log |-> <<>>]

\* What a call asked of the pool, the connection or the database, in order:
\* `ok` is whether the request returned (TRUE) or threw (FALSE).
Event(ev, text, ok) == [ev |-> ev, text |-> text, ok |-> ok]

Logged(cr, ev, text, ok) == [cr EXCEPT !.log = Append(cr.log, Event(ev, text, ok))]

\* stmt.substring(0, 100) + (stmt.length > 100 ? '...' : '')
resultText(stmt) ==
  SubSeq(stmt, 1, Min(Len(stmt), ResultTextMax))
    \o (IF Len(stmt) > ResultTextMax THEN <<".", ".", ".">> ELSE <<>>)

\* A weaker flag, for comparison: results.some(r => r.success).
someSuccessful(results) == \E i \in 1..Len(results) : results[i].success

\* results.every(r => r.success)
allSuccessful(results) == \A i \in 1..Len(results) : results[i].success

\* The call returns `ret` (or rejects, kind "threw").
Returns(cr, ret) == [cr EXCEPT !.pc = "done", !.ret = ret]

\* For comparison, a return that leaves the connection as it is.
FinallyNoClose(cr, ret) == Returns(cr, ret)

\* The `finally` of the three functions: close the connection if there is one.
Finally(cr, ret) ==
  IF cr.connection # NoConn THEN [cr EXCEPT !.pc = "close", !.ret = ret]
  ELSE Returns(cr, ret)

\* ------------------------------------------------------- resetEnvironment

RECURSIVE flatten(_)
flatten(ss) == IF ss = <<>> THEN <<>> ELSE ss[1] \o flatten(Tail(ss))

\* The inner loop of resetEnvironment over the statements of one script.
namespaceAll(individualStatements, safeSessionId) ==
  [j \in 1..Len(individualStatements) |->
     namespaceStatement(individualStatements[j], safeSessionId)]

scriptStatements(script, safeSessionId) ==
  namespaceAll(SelectSeq(splitOracleStatements(script), LAMBDA x : ~IsBlank(x)),
               safeSessionId)

\* The statement list resetEnvironment builds from the setup scripts.
statementsFor(setupScripts, safeSessionId) ==
  flatten([k \in 1..Len(setupScripts) |-> scriptStatements(setupScripts[k], safeSessionId)])

sessionStatements(setupScripts, sessionId) ==
  statementsFor(setupScripts, safeSessionIdOf(sessionId))

\* ------------------------------------------------------------ the calls

\* `!query || !query.trim()`
IsEmptyQuery(input) == input = <<>> \/ IsBlank(input[1])

\* What a call does once `pool` is set, up to its first await.
AfterPool(cr, p) ==
  CASE cr.op = "executeQuery" ->
         IF IsEmptyQuery(cr.input)
         THEN Returns(cr, [NoRet EXCEPT !.kind = "result", !.error = "Empty query"])
         ELSE [cr EXCEPT !.pc = "getConnection", !.poolRef = p]
    [] cr.op = "executeMultipleStatements" ->
         [cr EXCEPT !.pc = "getConnection", !.poolRef = p, !.statements = cr.input]
    [] cr.op = "validateQuery" ->
         [cr EXCEPT !.pc = "getConnection", !.poolRef = p]
    [] cr.op = "resetEnvironment" ->
         IF cr.sessionId = <<>>
         THEN Returns(cr, [NoRet EXCEPT !.kind = "threw", !.error = "TypeError"])
         ELSE [cr EXCEPT !.pc = "getConnection", !.poolRef = p,
                         !.statements = sessionStatements(cr.input, cr.sessionId[1])]

NewCall(op, input, sessionId) ==
  [IdleCall EXCEPT !.op = op, !.input = input, !.sessionId = sessionId]

\* `if (!pool) await initializePool()`: is the pool to be created?
PoolMissing(p) == p = 0

\* A caller invokes one of the four exported functions: `if (!pool)` either
\* starts initializePool (createPool is called, the call awaits it) or goes on.
InvokeWith(c, cr) ==
  /\ call[c].pc = "idle"
  /\ IF PoolMissing(pool)
     THEN /\ call' = [call EXCEPT ![c] = [cr EXCEPT !.pc = "createPool"]]
          /\ createCalls' = createCalls + 1
     ELSE /\ call' = [call EXCEPT ![c] = AfterPool(cr, pool)]
          /\ UNCHANGED createCalls
  /\ UNCHANGED <<pool, poolsMade, inUse, committed, pendingTx, ns, su>>

Invoke(c) ==
  /\ call[c].pc = "idle"
  /\ \E op \in IF c = 1 THEN Ops ELSE ConcurrentOps :
       \E input \in IF c = 1 THEN InputsOf(op) ELSE ConcurrentInputsOf(op) :
         \E sessionId \in IF c = 1 THEN SessionsOf(op) ELSE ConcurrentSessionsOf(op) :
           /\ c = 1 => Requested(op, input, sessionId)
           /\ InvokeWith(c, NewCall(op, input, sessionId))

\* For comparison, a creation failure reported like an execution error.
poolFailedAsResult(cr) ==
  Finally(Logged(cr, "createPool", <<>>, FALSE),
          [NoRet EXCEPT !.kind = "result", !.error = "createPool"])

\* initializePool rethrows the error of createPool (`throw error`), and the
\* exported function, which awaits it outside its try, rejects with it.
poolFailed(cr) ==
  Returns(Logged(cr, "createPool", <<>>, FALSE),
          [NoRet EXCEPT !.kind = "threw", !.error = "createPool"])

\* initializePool: createPool resolves and `pool` is assigned, or it rejects
\* and the error is rethrown to the caller of the exported function.
CreatePoolDone(c) ==
  /\ call[c].pc = "createPool"
  /\ \E ok \in BOOLEAN :
       IF ok
       THEN /\ poolsMade' = poolsMade + 1
            /\ pool' = poolsMade + 1
            /\ call' = [call EXCEPT ![c] =
                          AfterPool(Logged(call[c], "createPool", <<>>, TRUE), poolsMade + 1)]
       ELSE /\ call' = [call EXCEPT ![c] = poolFailed(call[c])]
            /\ UNCHANGED <<pool, poolsMade>>
  /\ UNCHANGED <<createCalls, inUse, committed, pendingTx, ns, su>>

\* The index of the first non-blank statement at or after i (Len + 1: none).
RECURSIVE nextStatement(_, _)
nextStatement(statements, i) ==
  IF i > Len(statements) \/ ~IsBlank(statements[i]) THEN i
  ELSE nextStatement(statements, i + 1)

\* executeQuery after the loop: the result, then the finally.
queryResult(cr) ==
  Finally(cr, [kind |-> "result", success |-> allSuccessful(cr.results),
               hasResults |-> TRUE, results |-> cr.results, error |-> ""])

\* For comparison, an outer catch that reports the error without a rollback.
outerCatchNoRollback(cr, err) ==
  CASE cr.op = "validateQuery" ->
         Finally(cr, [NoRet EXCEPT !.kind = "validation", !.error = err])
    [] OTHER ->
         Finally(cr, [NoRet EXCEPT !.kind = "result", !.error = err])

\* The outer catch of the three functions, entered with error `err`.
outerCatch(cr, err) ==
  CASE cr.op = "executeQuery" ->
         Finally(cr, [NoRet EXCEPT !.kind = "result", !.error = err])
    [] cr.op = "validateQuery" ->
         Finally(cr, [NoRet EXCEPT !.kind = "validation", !.error = err])
    [] OTHER ->
         IF cr.connection # NoConn
         THEN [cr EXCEPT !.pc = "catchRollback", !.ret = [NoRet EXCEPT !.error = err]]
         ELSE Returns(cr, [NoRet EXCEPT !.kind = "result", !.hasResults = TRUE,
                                        !.error = err])

\* For comparison, a pool that hands out its first connection whether or
\* not it is borrowed.
firstSlot(p, used) == 1

\* The free slot pool.getConnection() hands out.
freeSlot(p, used) ==
  CHOOSE k \in 1..PoolMax : <<p, k>> \notin used /\ \A j \in 1..(k - 1) : <<p, j>> \in used

\* query.split(';').filter(stmt => stmt.trim())
queryStatements(query) == SelectSeq(splitOn(query, ";"), LAMBDA x : ~IsBlank(x))

\* executeQuery enters its loop with the statements of the query.
startQuery(cr, stmts) ==
  IF stmts = <<>> THEN queryResult([cr EXCEPT !.statements = stmts])
  ELSE [cr EXCEPT !.statements = stmts, !.idx = 1, !.pc = "execute"]

\* What follows `connection = await pool.getConnection()`.
afterGetConnection(cr) ==
  CASE cr.op = "executeQuery" -> startQuery(cr, queryStatements(cr.input[1]))
    [] cr.op = "validateQuery" -> [cr EXCEPT !.pc = "parse"]
    [] OTHER -> [cr EXCEPT !.pc = "setTransaction"]

Connected(cr, conn) == Logged([cr EXCEPT !.connection = conn], "getConnection", <<>>, TRUE)

\* pool.getConnection() resolves with a free connection, or rejects.
GetConnectionDone(c) ==
  /\ call[c].pc = "getConnection"
  /\ \E ok \in BOOLEAN :
       IF ok
       THEN /\ \E k \in 1..PoolMax : <<call[c].poolRef, k>> \notin inUse
            /\ inUse' = inUse \cup {<<call[c].poolRef, freeSlot(call[c].poolRef, inUse)>>}
            /\ call' = [call EXCEPT ![c] =
                 afterGetConnection(
                   Connected(call[c], <<call[c].poolRef, freeSlot(call[c].poolRef, inUse)>>))]
       ELSE /\ call' = [call EXCEPT ![c] =
                 outerCatch(Logged(call[c], "getConnection", <<>>, FALSE), "getConnection")]
            /\ UNCHANGED inUse
  /\ UNCHANGED <<pool, createCalls, poolsMade, committed, pendingTx, ns, su>>

\* The loop of executeMultipleStatements stands before statement `next`:
\* it executes it, or, past the last one, goes on to the commit.
loopAt(cr, next) ==
  [cr EXCEPT !.idx = next,
             !.pc = IF next > Len(cr.statements) THEN "commit" ELSE "execute"]

\* executeMultipleStatements: execute("SET TRANSACTION READ WRITE") returns
\* or throws.
SetTransactionDone(c) ==
  /\ call[c].pc = "setTransaction"
  /\ \E ok \in BOOLEAN :
       call' = [call EXCEPT ![c] =
         IF ok
         THEN loopAt(Logged(call[c], "setTransaction", <<>>, TRUE),
                     nextStatement(call[c].statements, 1))
         ELSE outerCatch(Logged(call[c], "setTransaction", <<>>, FALSE), "setTransaction")]
  /\ UNCHANGED <<pool, createCalls, poolsMade, inUse, committed, pendingTx, ns, su>>

\* results.push({success, statement, ...}) and the step of the loop.
queryPushed(cr, text, ok) ==
  [Logged(cr, "execute", text, ok) EXCEPT
     !.results = Append(cr.results, [success |-> ok, statement |-> text]),
     !.idx = cr.idx + 1]

\* For comparison, a loop that leaves at the first failed statement.
afterQueryStatementBreak(cr) ==
  IF cr.idx > Len(cr.statements) \/ ~cr.results[Len(cr.results)].success
  THEN queryResult(cr) ELSE cr

\* executeQuery after one statement: the next one, or the result.
afterQueryStatement(cr) ==
  IF cr.idx > Len(cr.statements) THEN queryResult(cr) ELSE cr

ExecuteQueryEffect(c, text, r) ==
  /\ committed' = r.db
  /\ pendingTx' = [pendingTx EXCEPT ![call[c].connection] = r.pend]
  /\ call' = [call EXCEPT ![c] = afterQueryStatement(queryPushed(call[c], text, r.ok))]

\* connection.execute(stmt.trim(), bindParams, {autoCommit: true})
ExecuteQueryStatement(c, text, fault) ==
  ExecuteQueryEffect(c, text,
    dbExecute(committed, pendingTx[call[c].connection], text, TRUE, fault,
              <<c, call[c].idx>>))

\* One statement of executeQuery returns: its outcome is pushed, whatever
\* it is, and the loop goes on; after the last one the result is built.
ExecuteQueryStep(c) ==
  /\ call[c].pc = "execute"
  /\ call[c].op = "executeQuery"
  /\ \E fault \in BOOLEAN :
       ExecuteQueryStatement(c, trim(call[c].statements[call[c].idx]), fault)
  /\ UNCHANGED <<pool, createCalls, poolsMade, inUse, ns, su>>

\* For comparison, outcomes kept newest first (unshift instead of push).
multiplePushedFront(cr, stmt, ok) ==
  [Logged(cr, "execute", stmt, ok) EXCEPT
     !.results = <<[success |-> ok, statement |-> resultText(stmt)]>> \o cr.results]

multiplePushed(cr, stmt, ok) ==
  [Logged(cr, "execute", stmt, ok) EXCEPT
     !.results = Append(cr.results, [success |-> ok, statement |-> resultText(stmt)])]

\* For comparison, a loop without the break: a failure is recorded and the
\* next statement is executed.
afterMultipleStatementNoBreak(cr, ok) ==
  loopAt([cr EXCEPT !.successful = cr.successful /\ ok],
         nextStatement(cr.statements, cr.idx + 1))

\* executeMultipleStatements after one statement: a success goes on with the
\* loop; a failure sets successful = false and leaves it (break).
afterMultipleStatement(cr, ok) ==
  IF ok THEN loopAt(cr, nextStatement(cr.statements, cr.idx + 1))
  ELSE [cr EXCEPT !.successful = FALSE, !.pc = "rollback"]

ExecuteMultipleEffect(c, stmt, r) ==
  /\ committed' = r.db
  /\ pendingTx' = [pendingTx EXCEPT ![call[c].connection] = r.pend]
  /\ call' = [call EXCEPT ![c] =
                afterMultipleStatement(multiplePushed(call[c], stmt, r.ok), r.ok)]

\* connection.execute(stmt)
ExecuteMultipleStatement(c, stmt, fault) ==
  ExecuteMultipleEffect(c, stmt,
    dbExecute(committed, pendingTx[call[c].connection], stmt, FALSE, fault,
              <<c, call[c].idx>>))

\* One statement of executeMultipleStatements returns.
ExecuteMultipleStep(c) ==
  /\ call[c].pc = "execute"
  /\ call[c].op \in {"executeMultipleStatements", "resetEnvironment"}
  /\ \E fault \in BOOLEAN :
       ExecuteMultipleStatement(c, call[c].statements[call[c].idx], fault)
  /\ UNCHANGED <<pool, createCalls, poolsMade, inUse, ns, su>>

\* For comparison, a result that reports success whatever happened.
multipleResultSuccess(cr) ==
  Finally(cr, [kind |-> "result", success |-> TRUE, hasResults |-> TRUE,
               results |-> cr.results, error |-> ""])

\* The result executeMultipleStatements returns after commit or rollback.
multipleResult(cr) ==
  Finally(cr, [kind |-> "result", success |-> cr.successful, hasResults |-> TRUE,
               results |-> cr.results, error |-> ""])

\* connection.commit() returns (the transaction is durable) or throws.
CommitDone(c) ==
  /\ call[c].pc = "commit"
  /\ \E ok \in BOOLEAN :
       IF ok
       THEN /\ committed' = committed \cup pendingTx[call[c].connection]
            /\ pendingTx' = [pendingTx EXCEPT ![call[c].connection] = {}]
            /\ call' = [call EXCEPT ![c] =
                          multipleResult(Logged(call[c], "commit", <<>>, TRUE))]
       ELSE /\ call' = [call EXCEPT ![c] =
                          outerCatch(Logged(call[c], "commit", <<>>, FALSE), "commit")]
            /\ UNCHANGED <<committed, pendingTx>>
  /\ UNCHANGED <<pool, createCalls, poolsMade, inUse, ns, su>>

\* connection.rollback() after a failed statement returns or throws.
RollbackDone(c) ==
  /\ call[c].pc = "rollback"
  /\ \E ok \in BOOLEAN :
       IF ok
       THEN /\ pendingTx' = [pendingTx EXCEPT ![call[c].connection] = {}]
            /\ call' = [call EXCEPT ![c] =
                          multipleResult(Logged(call[c], "rollback", <<>>, TRUE))]
       ELSE /\ call' = [call EXCEPT ![c] =
                          outerCatch(Logged(call[c], "rollback", <<>>, FALSE), "rollback")]
            /\ UNCHANGED pendingTx
  /\ UNCHANGED <<pool, createCalls, poolsMade, inUse, committed, ns, su>>

\* The return of the outer catch: {success: false, error, results: []}.
catchResult(cr) ==
  Finally(cr, [NoRet EXCEPT !.kind = "result", !.hasResults = TRUE,
                            !.error = cr.ret.error])

\* The rollback of the outer catch: its own failure is only logged.
CatchRollbackDone(c) ==
  /\ call[c].pc = "catchRollback"
  /\ \E ok \in BOOLEAN :
       /\ pendingTx' = IF ok THEN [pendingTx EXCEPT ![call[c].connection] = {}]
                       ELSE pendingTx
       /\ call' = [call EXCEPT ![c] = catchResult(Logged(call[c], "rollback", <<>>, ok))]
  /\ UNCHANGED <<pool, createCalls, poolsMade, inUse, committed, ns, su>>

\* For comparison, a validation that reports every query valid.
validationResultValid(cr, r) ==
  Finally(cr, [NoRet EXCEPT !.kind = "validation", !.success = TRUE])

\* The return of validateQuery: {valid: outBinds.valid === 1, error}.
validationResult(cr, r) ==
  IF r.threw THEN outerCatch(cr, "execute")
  ELSE Finally(cr, [NoRet EXCEPT !.kind = "validation", !.success = r.valid,
                                 !.error = IF r.valid THEN "" ELSE "SQLERRM"])

ParseEffect(c, r) ==
  /\ committed' = r.db
  /\ pendingTx' = [pendingTx EXCEPT ![call[c].connection] = r.pend]
  /\ call' = [call EXCEPT ![c] =
                validationResult(
                  Logged(call[c], "parse", call[c].input[1], ~r.threw /\ r.valid), r)]

\* validateQuery: the DBMS_SQL.PARSE block returns its out binds or throws.
ParseDone(c) ==
  /\ call[c].pc = "parse"
  /\ \E fault \in BOOLEAN :
       ParseEffect(c, dbParse(committed, pendingTx[call[c].connection],
                              call[c].input[1], fault, <<c, 1>>))
  /\ UNCHANGED <<pool, createCalls, poolsMade, inUse, ns, su>>

\* The finally: connection.close() returns the connection to its pool (the
\* open transaction is rolled back), or throws, which is only logged.
CloseDone(c) ==
  /\ call[c].pc = "close"
  /\ \E ok \in BOOLEAN :
       /\ inUse' = IF ok THEN inUse \ {call[c].connection} ELSE inUse
       /\ pendingTx' = IF ok THEN [pendingTx EXCEPT ![call[c].connection] = {}]
                       ELSE pendingTx
       /\ call' = [call EXCEPT ![c] =
                     [Logged(call[c], "close", <<>>, ok) EXCEPT !.pc = "done"]]
  /\ UNCHANGED <<pool, createCalls, poolsMade, committed, ns, su>>

\* ------------------------------------------- namespacing, on its own

\* The longest raw session identifier, and the most passes of the rules.
MaxIdLen == 2
MaxPasses == 2

\* Short identifiers over three characters, and two identifiers one
\* character longer than the token, which differ in their last character.
IdChars == {"a", "-", "_"}
idLong1 == [i \in 1..TokenMaxLen |-> "a"] \o <<"1">>
idLong2 == [i \in 1..TokenMaxLen |-> "a"] \o <<"2">>
NsSessionIds == (SeqsUpTo(IdChars, MaxIdLen) \ {<<>>}) \cup {idLong1, idLong2}

nsPhrases ==
  { <<"C", "R", "E", "A", "T", "E", " ", "T", "A", "B", "L", "E">>,
    <<"C", "R", "E", "A", "T", "E", " ", "O", "R", " ", "R", "E", "P", "L", "A", "C", "E", " ", "V", "I", "E", "W">>,
    <<"C", "R", "E", "A", "T", "E", " ", "T", "A", "B", "L", "E", " ", "I", "F", " ", "N", "O", "T", " ", "E", "X", "I", "S", "T", "S">>,
    <<"I", "N", "S", "E", "R", "T", " ", "I", "N", "T", "O">>,
    <<"S", "E", "L", "E", "C", "T", " ", "*", " ", "F", "R", "O", "M">>,
    <<"D", "R", "O", "P", " ", "T", "A", "B", "L", "E">> }
nsNames == { <<"t">>, <<"a", "_", "t">>, <<"D", "u", "a", "l">> }
NsStatements == {ph \o <<" ">> \o n : ph \in nsPhrases, n \in nsNames}

NsIdle == [sessionIds |-> <<<<>>, <<>>>>, script |-> <<>>, text |-> <<<<>>, <<>>>>,
           prev |-> <<<<>>, <<>>>>, passes |-> <<0, 0>>]

\* Session k of the two applies the rules of resetEnvironment to its text.
Namespace(k) ==
  /\ ns.passes[k] < MaxPasses
  /\ ns' = [ns EXCEPT !.prev[k] = ns.text[k],
                      !.text[k] = namespaceStatement(ns.text[k],
                                                     safeSessionIdOf(ns.sessionIds[k])),
                      !.passes[k] = ns.passes[k] + 1]
  /\ UNCHANGED <<pool, createCalls, poolsMade, inUse, committed, pendingTx, call, su>>

\* ------------------------------- one setup script, step by step

\* The most lines of a setup script.
MaxLines == 2

txtAlice == <<"a", "l", "i", "c", "e", "_", "1">>
txtBob == <<"b", "o", "b", "_", "1">>
\* `${userId}_${Date.now()}` for the user 'anonymous'
txtAnonymous ==
  <<"a", "n", "o", "n", "y", "m", "o", "u", "s", "_", "1", "7", "0", "0", "0", "0", "0", "0", "0", "0", "0", "0", "0">>

\* A statement at the start of its line, without a terminator.
lineEmployees ==
  <<"C", "R", "E", "A", "T", "E", " ", "T", "A", "B", "L", "E", " ", "e", "m", "p", "l", "o", "y", "e", "e", "s", " ", "(", "i", "d", " ", "I", "N", "T", ")">>
\* Indented lines: one terminated statement, two terminated statements,
\* and a statement without a terminator.
lineCreateT ==
  <<" ", "C", "R", "E", "A", "T", "E", " ", "T", "A", "B", "L", "E", " ", "t", " ", "(", "i", "d", " ", "I", "N", "T", ")", ";">>
lineTwoInserts ==
  <<" ", "I", "N", "S", "E", "R", "T", " ", "I", "N", "T", "O", " ", "t", " ", "V", "A", "L", "U", "E", "S", " ", "(", "1", ")", ";", " ", "I", "N", "S", "E", "R", "T", " ", "I", "N", "T", "O", " ", "t", " ", "V", "A", "L", "U", "E", "S", " ", "(", "2", ")", ";">>
lineSelect ==
  <<" ", "S", "E", "L", "E", "C", "T", " ", "1", " ", "F", "R", "O", "M", " ", "t">>
\* A terminated statement at the start of its line.
lineInsert ==
  <<"I", "N", "S", "E", "R", "T", " ", "I", "N", "T", "O", " ", "t", " ", "V", "A", "L", "U", "E", "S", " ", "(", "1", ")", ";">>

LinePool == {lineEmployees, lineCreateT, lineTwoInserts, lineSelect, lineInsert}

\* An indented procedural block with a blank line and a comment line
\* between its END; and its "/", followed by a statement.
scriptBlock ==
  <<" ", "B", "E", "G", "I", "N", "\n", " ", "N", "U", "L", "L", ";", "\n", " ", "E", "N", "D", ";", "\n", "\n", "-", "-", " ", "d", "o", "n", "e", ";", "\n", "/", "\n", " ", "I", "N", "S", "E", "R", "T", " ", "I", "N", "T", "O", " ", "t", " ", "V", "A", "L", "U", "E", "S", " ", "(", "1", ")", ";">>

\* A statement over two lines with a comment line between them.
scriptCommented ==
  <<" ", "S", "E", "L", "E", "C", "T", " ", "1", "\n", "-", "-", " ", "n", "o", "t", "e", ";", "\n", " ", "F", "R", "O", "M", " ", "t", ";">>

FixedScripts == {scriptBlock, scriptCommented}

\* Scripts of one to MaxLines lines, joined by line breaks, and the two
\* longer scripts.
SetupScripts ==
  {joinWith(ls, "\n") : ls \in SeqsUpTo(LinePool, MaxLines) \ {<<>>}} \cup FixedScripts

\* The two named sessions submit every script; every other identifier
\* submits one script.
SetupRequests ==
  ({txtAlice, txtBob} \X SetupScripts)
    \cup ((NsSessionIds \cup {txtAnonymous}) \X {lineCreateT})

SuIdle == [sessionId |-> <<>>, script |-> <<>>, stage |-> "idle",
           token |-> <<>>, lines |-> <<>>, i |-> 0,
           scanner |-> Scanner(<<>>, <<>>, FALSE, FALSE),
           statements |-> <<>>, sent |-> <<>>, returned |-> <<>>, response |-> <<>>]

\* const safeSessionId = sessionId.replace(...).substring(0, 20)
Sanitize ==
  /\ su.stage = "start"
  /\ su' = [su EXCEPT !.stage = "token", !.token = safeSessionIdOf(su.sessionId)]
  /\ UNCHANGED <<pool, createCalls, poolsMade, inUse, committed, pendingTx, call, ns>>

\* splitOracleStatements(script) is entered: the script is cleaned and cut
\* into lines, and the scanner starts before the first line.
SplitScript ==
  /\ su.stage = "token"
  /\ su' = [su EXCEPT !.stage = "scan",
                      !.lines = splitOn(cleanScriptOf(su.script), "\n"),
                      !.i = 1,
                      !.scanner = Scanner(<<>>, <<>>, FALSE, FALSE)]
  /\ UNCHANGED <<pool, createCalls, poolsMade, inUse, committed, pendingTx, call, ns>>

\* One iteration of the line loop of splitOracleStatements.
ScanLine ==
  /\ su.stage = "scan"
  /\ su.i <= Len(su.lines)
  /\ su' = [su EXCEPT !.i = su.i + 1, !.scanner = splitStep(su.scanner, su.lines[su.i])]
  /\ UNCHANGED <<pool, createCalls, poolsMade, inUse, committed, pendingTx, call, ns>>

\* After the last line: the remaining statement, the comment filter, and
\* the return into `individualStatements`.
FinishSplit ==
  /\ su.stage = "scan"
  /\ su.i > Len(su.lines)
  /\ su' = [su EXCEPT !.stage = "split", !.statements = splitScanned(su.scanner)]
  /\ UNCHANGED <<pool, createCalls, poolsMade, inUse, committed, pendingTx, call, ns>>

\* The loop over individualStatements: blank entries are skipped, the
\* others are rewritten and pushed onto the list that is executed.
RewriteStatements ==
  /\ su.stage = "split"
  /\ su' = [su EXCEPT !.stage = "sent",
                      !.sent = namespaceAll(SelectSeq(su.statements,
                                                      LAMBDA x : ~IsBlank(x)),
                                            su.token)]
  /\ UNCHANGED <<pool, createCalls, poolsMade, inUse, committed, pendingTx, call, ns>>

\* resetEnvironment returns {...result, sessionId: safeSessionId}, and
\* setupEnvironment answers with {...result, sessionId, goal}: its own
\* `sessionId` comes after the spread and replaces the returned one.
Respond ==
  /\ su.stage = "sent"
  /\ su' = [su EXCEPT !.stage = "responded",
                      !.returned = su.token,
                      !.response = su.sessionId]
  /\ UNCHANGED <<pool, createCalls, poolsMade, inUse, committed, pendingTx, call, ns>>

Init ==
  /\ pool = 0
  /\ createCalls = 0
  /\ poolsMade = 0
  /\ inUse = {}
  /\ committed = {}
  /\ pendingTx = [k \in Conns |-> {}]
  /\ call = [c \in Calls |-> IdleCall]
  /\ ns = NsIdle
  /\ su = SuIdle

Next ==
  \E c \in Calls :
    \/ Invoke(c)
    \/ CreatePoolDone(c)
    \/ GetConnectionDone(c)
    \/ SetTransactionDone(c)
    \/ ExecuteQueryStep(c)
    \/ ExecuteMultipleStep(c)
    \/ CommitDone(c)
    \/ RollbackDone(c)
    \/ CatchRollbackDone(c)
    \/ ParseDone(c)
    \/ CloseDone(c)

Spec == Init /\ [][Next]_vars

\* Two sessions submit the same statement, each under its own identifier.
InitNS ==
  /\ pool = 0
  /\ createCalls = 0
  /\ poolsMade = 0
  /\ inUse = {}
  /\ committed = {}
  /\ pendingTx = [k \in Conns |-> {}]
  /\ call = [c \in Calls |-> IdleCall]
  /\ \E s1 \in NsSessionIds, s2 \in NsSessionIds, script \in NsStatements :
       ns = [sessionIds |-> <<s1, s2>>, script |-> script, text |-> <<script, script>>,
             prev |-> <<script, script>>, passes |-> <<0, 0>>]
  /\ su = SuIdle

NextNS == \E k \in {1, 2} : Namespace(k)

SpecNS == InitNS /\ [][NextNS]_vars

\* One session submits one setup script: setupEnvironment hands it to
\* resetEnvironment and answers with what comes back.
InitSetup ==
  /\ pool = 0
  /\ createCalls = 0
  /\ poolsMade = 0
  /\ inUse = {}
  /\ committed = {}
  /\ pendingTx = [k \in Conns |-> {}]
  /\ call = [c \in Calls |-> IdleCall]
  /\ ns = NsIdle
  /\ \E rq \in SetupRequests :
       su = [SuIdle EXCEPT !.sessionId = rq[1], !.script = rq[2], !.stage = "start"]

NextSetup ==
  \/ Sanitize
  \/ SplitScript
  \/ ScanLine
  \/ FinishSplit
  \/ RewriteStatements
  \/ Respond

SpecSetup == InitSetup /\ [][NextSetup]_vars

\* ---------------------------------------------------------- properties

MultiOps == {"executeMultipleStatements", "resetEnvironment"}

EventsOf(cr, ev) == SelectSeq(cr.log, LAMBDA e : e.ev = ev)
NonBlank(statements) == SelectSeq(statements, LAMBDA x : ~IsBlank(x))
FailedAt(cr, i) == cr.log[i].ev = "execute" /\ ~cr.log[i].ok
HasFailed(cr) == \E i \in 1..Len(cr.log) : FailedAt(cr, i)
Ended(cr) == cr.pc \in {"close", "done"}
QueryText(cr) == IF cr.input = <<>> THEN <<>> ELSE cr.input[1]

\* The statements sent so far are, in order, the first of `expected`.
SentPrefix(sent, expected) ==
  /\ Len(sent) <= Len(expected)
  /\ \A i \in 1..Len(sent) : sent[i].text = expected[i]

\* C1: in executeMultipleStatements the first failing statement stops the
\* execution and triggers a rollback: the statements sent are, in order, the
\* non-blank statements of the list up to the first one that fails, nothing
\* is sent after a failed statement, and once the call is past its
\* transaction (it closes the connection or has returned) rollback has been
\* invoked on its connection after the failed statement.
StopsAndRollsBack(cr) ==
  /\ SentPrefix(EventsOf(cr, "execute"), NonBlank(cr.statements))
  /\ \A i \in 1..Len(cr.log) :
       FailedAt(cr, i) =>
         /\ \A j \in (i + 1)..Len(cr.log) : cr.log[j].ev # "execute"
         /\ Ended(cr) => \E j \in (i + 1)..Len(cr.log) : cr.log[j].ev = "rollback"

C1_FirstFailureStops ==
  \A c \in Calls : call[c].op \in MultiOps => StopsAndRollsBack(call[c])

\* A returned call whose first statement failed while another one was still
\* to come, and whose rollback returned.
C1_Witness ==
  \E c \in Calls :
    /\ call[c].op = "executeMultipleStatements"
    /\ call[c].pc = "done"
    /\ HasFailed(call[c])
    /\ Len(EventsOf(call[c], "execute")) < Len(NonBlank(call[c].statements))
    /\ \E j \in 1..Len(call[c].log) : call[c].log[j].ev = "rollback" /\ call[c].log[j].ok

\* C2: executeMultipleStatements returns success = true only if every
\* (non-blank) statement of the list was executed and succeeded, and the call
\* ended with a commit that returned, with no rollback in the call.
AllSentAndOk(sent, expected) ==
  /\ Len(sent) = Len(expected)
  /\ \A i \in 1..Len(sent) : sent[i].text = expected[i] /\ sent[i].ok

CommittedNotRolledBack(cr) ==
  /\ \E j \in 1..Len(cr.log) :
       /\ cr.log[j].ev = "commit" /\ cr.log[j].ok
       /\ \A i \in (j + 1)..Len(cr.log) : cr.log[i].ev = "close"
  /\ \A j \in 1..Len(cr.log) : cr.log[j].ev # "rollback"

C2_SuccessMeansCommitted ==
  \A c \in Calls :
    (call[c].op \in MultiOps /\ call[c].ret.kind = "result" /\ call[c].ret.success) =>
      /\ AllSentAndOk(EventsOf(call[c], "execute"), NonBlank(call[c].statements))
      /\ \A i \in 1..Len(call[c].ret.results) : call[c].ret.results[i].success
      /\ CommittedNotRolledBack(call[c])

\* A returned call that reports success for a list of two statements.
C2_Witness ==
  \E c \in Calls :
    /\ call[c].op = "executeMultipleStatements"
    /\ call[c].pc = "done"
    /\ call[c].ret.success
    /\ Len(call[c].ret.results) >= 2

\* C3: in executeMultipleStatements, if a statement of a call fails, then
\* after the call has returned the database holds no table and no row
\* that a statement of that call created or inserted.
C3_NothingPersistsAfterFailure ==
  \A c \in Calls :
    (call[c].op \in MultiOps /\ call[c].pc = "done" /\ HasFailed(call[c])) =>
      \A e \in committed : e.by[1] # c

\* C4: executeQuery, once it holds a connection, attempts every non-blank
\* statement of the query exactly once, in order, whatever the outcomes of
\* the others, and its result holds one outcome per statement: the outcome
\* of that statement.
OutcomesOf(results, sent) ==
  /\ Len(results) = Len(sent)
  /\ \A i \in 1..Len(sent) :
       results[i].success = sent[i].ok /\ results[i].statement = sent[i].text

TrimAll(statements) == [i \in 1..Len(statements) |-> trim(statements[i])]

AllAttemptedOnce(cr, sent, expected) ==
  /\ SentPrefix(sent, expected)
  /\ (Ended(cr) /\ cr.connection # NoConn) =>
       /\ Len(sent) = Len(expected)
       /\ cr.ret.kind = "result" /\ cr.ret.hasResults
       /\ OutcomesOf(cr.ret.results, sent)

C4_EveryStatementAttempted ==
  \A c \in Calls :
    call[c].op = "executeQuery" =>
      AllAttemptedOnce(call[c], EventsOf(call[c], "execute"),
                       TrimAll(queryStatements(QueryText(call[c]))))

\* A returned call whose first statement failed and whose second succeeded.
C4_Witness ==
  \E c \in Calls :
    /\ call[c].op = "executeQuery"
    /\ call[c].pc = "done"
    /\ Len(call[c].ret.results) = 2
    /\ ~call[c].ret.results[1].success
    /\ call[c].ret.results[2].success

\* C5: the success flag of a result of executeQuery is true if and only if
\* the result carries the per-statement outcomes and every one of them is a
\* success; a result without outcomes (empty query, no connection) reports
\* success = false.
C5_SuccessIffAllSucceeded ==
  \A c \in Calls :
    (call[c].op = "executeQuery" /\ call[c].ret.kind = "result") =>
      /\ call[c].ret.success <=>
           /\ call[c].ret.hasResults
           /\ \A i \in 1..Len(call[c].ret.results) : call[c].ret.results[i].success
      /\ call[c].ret.hasResults =>
           OutcomesOf(call[c].ret.results, EventsOf(call[c], "execute"))

\* A returned call with one successful and one failed statement: success is
\* false.
C5_Witness ==
  \E c \in Calls :
    /\ call[c].op = "executeQuery"
    /\ call[c].pc = "done"
    /\ Len(call[c].ret.results) = 2
    /\ call[c].ret.results[1].success
    /\ ~call[c].ret.results[2].success
    /\ ~call[c].ret.success

\* C6: a call that acquired a connection closes it exactly once before it
\* completes, on every exit path, and never closes it twice; the connections
\* held from the pool are those of the calls whose close has not returned.
Closes(cr) == Len(EventsOf(cr, "close"))
ClosedOk(cr) == \E j \in 1..Len(cr.log) : cr.log[j].ev = "close" /\ cr.log[j].ok

C6_ConnectionClosedOnce ==
  /\ \A c \in Calls :
       /\ Closes(call[c]) <= 1
       /\ (call[c].pc = "done" /\ call[c].connection # NoConn) => Closes(call[c]) = 1
       /\ call[c].connection = NoConn => Closes(call[c]) = 0
  /\ inUse = {call[c].connection :
                c \in {d \in Calls : call[d].connection # NoConn /\ ~ClosedOk(call[d])}}

\* A returned call whose commit threw and whose rollback in the catch threw
\* as well: its connection is closed.
C6_Witness ==
  \E c \in Calls :
    /\ call[c].pc = "done"
    /\ call[c].connection # NoConn
    /\ \E j \in 1..Len(call[c].log) : call[c].log[j].ev = "commit" /\ ~call[c].log[j].ok
    /\ \E j \in 1..Len(call[c].log) : call[c].log[j].ev = "rollback" /\ ~call[c].log[j].ok
    /\ ClosedOk(call[c])
    /\ call[c].connection \notin inUse

\* C7: under any interleaving of calls the pool is created at most once,
\* unless a previous creation failed: createPool has been called at most
\* once more than it has failed, and at most one pool was ever made.
FailedCreations ==
  Cardinality({c \in Calls :
                 \E j \in 1..Len(call[c].log) :
                   call[c].log[j].ev = "createPool" /\ ~call[c].log[j].ok})

C7_PoolCreatedOnce ==
  /\ createCalls <= 1 + FailedCreations
  /\ poolsMade <= 1

\* C9: whenever a session identifier is supplied to a call that executes
\* statements, every statement sent to the backend is the namespaced rewrite,
\* under the token of that session, of the statement the call split off.
SplitOf(cr) ==
  IF cr.op = "executeQuery" THEN TrimAll(queryStatements(QueryText(cr)))
  ELSE NonBlank(flatten([i \in 1..Len(cr.input) |-> splitOracleStatements(cr.input[i])]))

SentNamespaced(sent, split, token) ==
  /\ Len(sent) <= Len(split)
  /\ \A i \in 1..Len(sent) : sent[i].text = namespaceStatement(split[i], token)

C9_SessionStatementsNamespaced ==
  \A c \in Calls :
    (call[c].op \in {"executeQuery", "resetEnvironment"} /\ call[c].sessionId # <<>>) =>
      SentNamespaced(EventsOf(call[c], "execute"), SplitOf(call[c]),
                     safeSessionIdOf(call[c].sessionId[1]))

\* C8: two distinct session identifiers never address the same physical
\* name: once both sessions have rewritten the statement, the object the
\* one creates or inserts into is not the object of the other.
Addressed(text) == ParseStatement(text)

SameObject(a, b) == a.kind # "other" /\ b.kind # "other" /\ a.name = b.name

C8_DistinctSessionsDisjoint ==
  (/\ ns.sessionIds[1] # ns.sessionIds[2]
   /\ ns.passes[1] = 1
   /\ ns.passes[2] = 1)
    => ~SameObject(Addressed(ns.text[1]), Addressed(ns.text[2]))

\* C10: namespacing is idempotent: a second pass of the rules over a
\* rewritten statement leaves it as the first pass made it.
C10_NamespacingIdempotent ==
  \A k \in {1, 2} : ns.passes[k] >= 2 => ns.text[k] = ns.prev[k]

ParseOk(cr) == \E j \in 1..Len(cr.log) : cr.log[j].ev = "parse" /\ cr.log[j].ok
Parsed(cr) == \E j \in 1..Len(cr.log) : cr.log[j].ev = "parse"

C14_ValidIffParsed ==
  \A c \in Calls :
    (call[c].op = "validateQuery" /\ call[c].ret.kind # "none") =>
      /\ call[c].ret.kind = "validation" => (call[c].ret.success <=> ParseOk(call[c]))
      /\ Parsed(call[c]) =>
           /\ call[c].ret.kind = "validation"
           /\ ~call[c].ret.success => call[c].ret.error # ""

\* A returned validation whose parse failed: valid = false with the message
\* of the backend.
C14_Witness ==
  \E c \in Calls :
    /\ call[c].op = "validateQuery"
    /\ call[c].pc = "done"
    /\ Parsed(call[c])
    /\ ~call[c].ret.success
    /\ call[c].ret.error = "SQLERRM"

\* C15: a call whose pool creation failed is rejected with the error of the
\* creation, not answered with a result; it has acquired no connection and
\* sent nothing to the backend.
PoolFailedIn(cr) == \E j \in 1..Len(cr.log) : cr.log[j].ev = "createPool" /\ ~cr.log[j].ok

C15_PoolFailureRejects ==
  \A c \in Calls :
    PoolFailedIn(call[c]) =>
      /\ call[c].pc = "done"
      /\ call[c].ret.kind = "threw"
      /\ call[c].ret.error = "createPool"
      /\ call[c].connection = NoConn
      /\ Len(call[c].log) = 1
      /\ \A e \in committed : e.by[1] # c

\* A call rejected with the error of the pool creation while the other call
\* has created the pool and holds a connection.
C15_Witness ==
  \E c \in Calls, d \in Calls :
    /\ PoolFailedIn(call[c])
    /\ call[c].ret.kind = "threw"
    /\ call[d].connection # NoConn

\* C20: the statements of one call are executed strictly in split order: the
\* statements completed so far are the first of the list, in order; the one
\* in flight is the next one, and no other is in flight; the outcomes are
\* kept, and returned, in that same order.
ExpectedOf(cr) ==
  IF cr.op = "executeQuery" THEN TrimAll(cr.statements) ELSE NonBlank(cr.statements)

SentText(cr, stmt) == IF cr.op = "executeQuery" THEN trim(stmt) ELSE stmt

InOrder(results, sent) ==
  /\ Len(results) = Len(sent)
  /\ \A i \in 1..Len(sent) :
       /\ results[i].success = sent[i].ok
       /\ results[i].statement = resultText(sent[i].text)

InFlightIsNext(cr, sent, expected) ==
  /\ Len(sent) < Len(expected)
  /\ SentText(cr, cr.statements[cr.idx]) = expected[Len(sent) + 1]
  /\ Len(NonBlank(SubSeq(cr.statements, 1, cr.idx))) = Len(sent) + 1

SplitOrder(cr, sent, expected) ==
  /\ SentPrefix(sent, expected)
  /\ InOrder(cr.results, sent)
  /\ cr.pc = "execute" => InFlightIsNext(cr, sent, expected)
  /\ (cr.ret.kind = "result" /\ cr.ret.results # <<>>) => InOrder(cr.ret.results, sent)

C20_SplitOrder ==
  \A c \in Calls :
    call[c].op \in {"executeQuery", "executeMultipleStatements", "resetEnvironment"} =>
      SplitOrder(call[c], EventsOf(call[c], "execute"), ExpectedOf(call[c]))

\* A returned executeMultipleStatements call with two outcomes, of which the
\* first is a success and the second a failure.
C20_Witness ==
  \E c \in Calls :
    /\ call[c].op = "executeMultipleStatements"
    /\ call[c].pc = "done"
    /\ Len(call[c].ret.results) = 2
    /\ call[c].ret.results[1].success
    /\ ~call[c].ret.results[2].success

\* C12: a session identifier that reduces to no token at all (the empty
\* string) makes resetEnvironment fail fast: the call asks for no connection
\* and sends no statement.
NoToken(cr) == cr.sessionId # <<>> /\ safeSessionIdOf(cr.sessionId[1]) = <<>>

C12_NoTokenFailsFast ==
  \A c \in Calls :
    (call[c].op = "resetEnvironment" /\ NoToken(call[c])) =>
      /\ call[c].pc \in {"createPool", "done"}
      /\ call[c].connection = NoConn
      /\ \A j \in 1..Len(call[c].log) : call[c].log[j].ev = "createPool"

\* C18: scenario B: the script of the scenario, run through resetEnvironment
\* (split, then executed in one transaction), returns success = false and
\* leaves no table behind.
C18_ScenarioB ==
  \A c \in Calls :
    (/\ call[c].op = "resetEnvironment"
     /\ call[c].input = <<txtScenarioB>>
     /\ call[c].ret.kind = "result") =>
      /\ ~call[c].ret.success
      /\ \A e \in committed : e.by[1] # c

\* C11: for every non-empty session identifier the token resetEnvironment
\* computes has between 1 and 20 characters, all of them letters, digits
\* or underscores.
LegalTokenChar(c) ==
  c \in Range(LowerLetters) \cup Range(UpperLetters) \cup DigitChars \cup {"_"}

C11_TokenLegal ==
  (su.stage \notin {"idle", "start"} /\ su.sessionId # <<>>) =>
    /\ Len(su.token) \in 1..20
    /\ \A i \in 1..Len(su.token) : LegalTokenChar(su.token[i])

\* An identifier longer than the token has been sanitized.
C11_Witness ==
  /\ su.stage = "sent"
  /\ Len(su.sessionId) > 20
  /\ Len(su.token) = 20

\* C16: a script without procedural blocks is split into as many
\* statements as it has semicolons outside comments and string literals.
\* The scripts of SetupScripts have no string literal and no comment after
\* code, so the semicolons that count are those of the lines that are not
\* comments.
HasSplit == su.stage \in {"split", "sent", "responded"}

lastOf(positions) == CHOOSE x \in positions : \A y \in positions : y <= x

LineStartOf(script, i) == 1 + lastOf({0} \cup {j \in 1..(i - 1) : script[j] = "\n"})

OnCommentLine(script, i) ==
  MatchLit(script, SkipSpaces(script, LineStartOf(script, i)), <<"-", "-">>)

Semicolons(script) ==
  Cardinality({i \in 1..Len(script) : script[i] = ";" /\ ~OnCommentLine(script, i)})

Lines(script) == splitOn(script, "\n")

HasBlock(script) == \E k \in 1..Len(Lines(script)) : OpensBlock(trim(Lines(script)[k]))

\* (A script whose last statement has no terminator is left to C17.)
C16_OnePerSemicolon ==
  (HasSplit /\ ~HasBlock(su.script) /\ endsWith(trim(su.script), <<";">>)) =>
    Len(su.statements) = Semicolons(su.script)

\* C17: a non-empty script without a terminator is split into exactly one
\* statement, the whole script.  The texts are compared without their
\* white space, since the splitter trims every line.
NoTerminator(script) ==
  \A k \in 1..Len(Lines(script)) :
    LET line == trim(Lines(script)[k])
    IN /\ line # <<"/">>
       /\ line = <<>> \/ line[Len(line)] # ";"

Squeeze(text) == SelectSeq(text, LAMBDA ch : ~IsSpace(ch))

C17_WholeScriptIsOneStatement ==
  (HasSplit /\ ~IsBlank(su.script) /\ NoTerminator(su.script)) =>
    /\ Len(su.statements) = 1
    /\ Squeeze(su.statements[1]) = Squeeze(su.script)

\* C19: alice_1 and bob_1 each submit CREATE TABLE employees (id INT);
\* the one statement sent for each creates the table under the session's
\* own prefix.
CreateEmployeesFor(sessionId) ==
  kwCREATE \o <<" ">> \o kwTABLE \o <<" ">> \o sessionId
    \o <<"_", "e", "m", "p", "l", "o", "y", "e", "e", "s", " ", "(", "i", "d", " ", "I", "N", "T", ")">>

C19_ScenarioC ==
  (su.stage \in {"sent", "responded"} /\ su.script = lineEmployees
     /\ su.sessionId \in {txtAlice, txtBob}) =>
    su.sent = <<CreateEmployeesFor(su.sessionId)>>

\* C21: no connection is in use by two calls at once. Two calls in flight
\* never hold the same connection, a connection a call holds is one the pool
\* has handed out and not taken back, and a step that changes the open
\* transaction of a connection is a step of the call that holds it.
Holding(c) == call[c].connection # NoConn /\ call[c].pc \notin {"idle", "done"}

HeldApart ==
  /\ \A c \in Calls : Holding(c) => call[c].connection \in inUse
  /\ \A c \in Calls, d \in Calls :
       (c # d /\ Holding(c) /\ Holding(d)) => call[c].connection # call[d].connection

OwnConnectionOnly ==
  \A k \in Conns :
    pendingTx'[k] # pendingTx[k] =>
      \E c \in Calls : Holding(c) /\ call[c].connection = k /\ call'[c] # call[c]

RecordedIn(results, text) ==
  \E j \in 1..Len(results) :
    ~results[j].success /\ results[j].statement \in {text, resultText(text)}

C22_FailureRecorded ==
  \A c \in Calls :
    (call[c].op \in {"executeQuery", "executeMultipleStatements"} /\ call[c].pc = "done") =>
      \A i \in 1..Len(call[c].log) :
        FailedAt(call[c], i) => RecordedIn(call[c].ret.results, call[c].log[i].text)

\* C23: a connection-level error aborts the call. When the acquisition
\* fails the call ends without a statement; when the connection is lost
\* while a statement is in flight (the statement throws although the
\* database would have run it) the next thing the call does is a rollback.
LastEvent(cr) == cr.log[Len(cr.log)]

AcquireFails(c) ==
  /\ call[c].pc = "getConnection"
  /\ Len(call'[c].log) = Len(call[c].log) + 1
  /\ LastEvent(call'[c]).ev = "getConnection" /\ ~LastEvent(call'[c]).ok

LostInFlight(c) ==
  /\ call[c].pc = "execute"
  /\ Len(call'[c].log) = Len(call[c].log) + 1
  /\ LastEvent(call'[c]).ev = "execute" /\ ~LastEvent(call'[c]).ok
  /\ dbExecute(committed, pendingTx[call[c].connection], LastEvent(call'[c]).text,
               call[c].op = "executeQuery", FALSE, <<c, call[c].idx>>).ok

C23_ConnectionErrorAborts ==
  [][\A c \in Calls :
       /\ AcquireFails(c) => call'[c].pc = "done" /\ call'[c].connection = NoConn
       /\ LostInFlight(c) => call'[c].pc \in {"rollback", "catchRollback"}]_vars

\* C24: setting up a sandbox is all or nothing. The endpoint hands its
\* script to executeQuery (without a session identifier) or, in the other
\* copy of the controller, to resetEnvironment; once that call has returned
\* with a failed statement, no statement was sent after the failed one and
\* the database holds nothing the call made.
IsSetupCall(cr) ==
  \/ cr.op = "executeQuery" /\ cr.sessionId = <<>>
  \/ cr.op = "resetEnvironment"

C24_SetupAllOrNothing ==
  \A c \in Calls :
    (IsSetupCall(call[c]) /\ call[c].pc = "done" /\ HasFailed(call[c])) =>
      /\ \A i \in 1..Len(call[c].log) :
           FailedAt(call[c], i) =>
             \A j \in (i + 1)..Len(call[c].log) : call[c].log[j].ev # "execute"
      /\ \A e \in committed : e.by[1] # c

\* C27: executeMultipleStatements attempts a commit or a rollback on every
\* connection it acquired before it releases it, and attempts the commit
\* only after every non-blank statement has succeeded.
SettledBefore(cr, i) == \E j \in 1..(i - 1) : cr.log[j].ev \in {"commit", "rollback"}

C27_SettledBeforeRelease ==
  \A c \in Calls :
    call[c].op \in MultiOps =>
      /\ call[c].pc = "close" => SettledBefore(call[c], Len(call[c].log) + 1)
      /\ \A i \in 1..Len(call[c].log) :
           /\ call[c].log[i].ev = "close" => SettledBefore(call[c], i)
           /\ call[c].log[i].ev = "commit" =>
                /\ i >= 3
                /\ call[c].log[i - Len(NonBlank(call[c].statements)) - 1].ev = "setTransaction"
                /\ \A k \in 1..(i - 1) : call[c].log[k].ok
                /\ Len(SelectSeq(SubSeq(call[c].log, 1, i - 1), LAMBDA e : e.ev = "execute"))
                     = Len(NonBlank(call[c].statements))

\* A call whose SET TRANSACTION threw has attempted a rollback and closed
\* its connection.
C27_Witness ==
  \E c \in Calls :
    /\ call[c].op = "executeMultipleStatements"
    /\ call[c].pc = "done"
    /\ \E i \in 1..Len(call[c].log) :
         /\ call[c].log[i].ev = "setTransaction" /\ ~call[c].log[i].ok
         /\ call[c].log[i + 1].ev = "rollback"
         /\ call[c].log[i + 2].ev = "close"

\* C29: a call that reports success = true carries at least one
\* per-statement outcome.
C29_SuccessHasOutcome ==
  \A c \in Calls :
    (/\ call[c].op \in {"executeQuery", "executeMultipleStatements", "resetEnvironment"}
     /\ call[c].pc = "done"
     /\ call[c].ret.kind = "result"
     /\ call[c].ret.success) =>
      Len(call[c].ret.results) >= 1

\* C25: while the scanner of splitOracleStatements is inside a procedural
\* block, only a "/" line emits a statement. A line that ends in ";" joins
\* the current statement, a line that ends in END; also sets slashPending,
\* a blank line changes nothing, and a pending terminator stays pending
\* until the "/" line.
ScansInBlock ==
  /\ su.stage = "scan" /\ su'.stage = "scan" /\ su'.i = su.i + 1
  /\ su.scanner.inPLSQL

ScannedLine == trim(su.lines[su.i])

JoinsStatement ==
  /\ su'.scanner.statements = su.scanner.statements
  /\ su'.scanner.currentStatement = su.scanner.currentStatement \o ScannedLine \o <<"\n">>
  /\ su'.scanner.inPLSQL
  /\ su.scanner.slashPending => su'.scanner.slashPending

C25_OnlySlashClosesBlock ==
  [][ScansInBlock =>
       /\ su'.scanner.statements # su.scanner.statements => ScannedLine = <<"/">>
       /\ ScannedLine = <<>> => su'.scanner = su.scanner
       /\ ScannedLine \notin {<<>>, <<"/">>} => JoinsStatement
       /\ (ScannedLine # <<"/">> /\ endsWith(upperText(ScannedLine), kwENDSEMI)) =>
            su'.scanner.slashPending]_vars

\* Inside a block, after END; and a blank line, a comment line that ends in
\* ";" has been scanned and nothing has been emitted.
C25_Witness ==
  /\ su.stage = "scan"
  /\ su.scanner.inPLSQL /\ su.scanner.slashPending
  /\ su.scanner.statements = <<>>
  /\ endsWith(su.scanner.currentStatement,
              <<"E", "N", "D", ";", "\n", "-", "-", " ", "d", "o", "n", "e", ";", "\n">>)

\* C26: a comment line does not affect the statement boundaries. Taking
\* any one comment line out of the script leaves the number of statements
\* and, statement by statement, the lines that are not comments unchanged.
CommentLinesOf(script) ==
  {k \in 1..Len(Lines(script)) : IsCommentLine(trim(Lines(script)[k]))}

WithoutLine(script, k) ==
  joinLines([j \in 1..(Len(Lines(script)) - 1) |->
               IF j < k THEN Lines(script)[j] ELSE Lines(script)[j + 1]])

CodeLines(stmt) ==
  SelectSeq(Lines(stmt), LAMBDA l : ~IsBlank(l) /\ ~IsCommentLine(trim(l)))

SameStatements(a, b) ==
  /\ Len(a) = Len(b)
  /\ \A j \in 1..Len(a) : CodeLines(a[j]) = CodeLines(b[j])

C26_CommentsKeepBoundaries ==
  HasSplit =>
    \A k \in CommentLinesOf(su.script) :
      SameStatements(su.statements, splitOracleStatements(WithoutLine(su.script, k)))

\* C28: no connection is leaked. Once a call has completed, the connection
\* it borrowed is back in the pool, so that a later call that waits in
\* getConnection can obtain it.
C28_NoLeakedConnection ==
  \A c \in Calls : call[c].pc = "done" => call[c].connection \notin inUse

\* C30: the sessionId setupEnvironment answers with is the token that
\* resetEnvironment prefixed onto the objects of the session.
C30_ResponseIsToken ==
  su.stage = "responded" => su.response = su.token /\ su.response = su.returned

====
